---------------------------- MODULE Spec2Model ----------------------------
(***************************************************************************)
(* Telemetry engine of pleme-web-observability (src/src/telemetry.ts):     *)
(* the in-memory event queue, the flush scheduler (flush timer and         *)
(* deferred flush callbacks), the standard delivery by fetch with its      *)
(* circuit breaker, and the teardown delivery by beacon.                   *)
(*                                                                         *)
(* One engine instance on one event loop.  Every action is one task of     *)
(* the loop: a public call, a timer callback, a deferred (idle) callback,  *)
(* a page-lifecycle listener, or the continuation of flush() after its     *)
(* await.  Events are identified by their tracking order 1, 2, 3, ...      *)
(***************************************************************************)
EXTENDS Integers, Sequences, FiniteSets, TLC

VARIABLES
    config,                       \* resolved configuration (batchSize, flushInterval, useBeacon)
    eventQueue,                   \* let eventQueue: TelemetryEvent[]
    flushTimer,                   \* let flushTimer: {} is null, {t} a timeout due at time t
    isInitialized,                \* let isInitialized
    boundHandleVisibilityChange,  \* TRUE while the visibilitychange listener is registered
    boundFlushWithBeacon,         \* TRUE while the beforeunload listener is registered
    consecutiveFailures,          \* circuit breaker: failure count
    backoffUntil,                 \* circuit breaker: no send before this time
    lastErrorLogged,              \* circuit breaker: time of the last warning
    now,                          \* Date.now()
    idleCallbacks,                \* flush callbacks handed to requestIdleCallback / setTimeout(flush, 0), not yet run
    inFlight,                     \* batches whose fetch is awaiting its response
    nextId,                       \* number of track-* calls made so far
    attempted,                    \* TRUE once a fetch call has been started
    delivered,                    \* events of the batches whose fetch resolved ok
    beaconed,                     \* events handed to navigator.sendBeacon
    dropped,                      \* events cut off by the requeue's cap
    cachedSessionId,              \* session.ts: let cachedSessionId, shared by the process; 0 is null
    sessionStorage,               \* window.sessionStorage: the id stored under each key; 0 is none
    peerKey,                      \* config.sessionKey of a second instance created in the same process
    sessionIds,                   \* the ids that getSession() has returned so far, to this instance
                                  \* ("engine") and to the second one ("peer")
    payload,                      \* what the last trackError call was given and the properties of the
                                  \* event it queued: {} before the first call, else one record
    warnLog,                      \* the times of the console.warn calls of the catch block
    removals,                     \* removeEventListener calls made so far, by event type
    response,                     \* how a fetch settled in the last step: "ok", "status" (resolved with a
                                  \* status that is not ok), "rejected", or "none" when none settled in it
    lastOp                        \* what the last step did: "send" (flush started a fetch), "defer" (flush
                                  \* found the breaker open), "fail" (a fetch failed), "beacon" (a beacon
                                  \* was sent), "ignored" (a page signal found no listener), "other", or "init"

vars == << config, eventQueue, flushTimer, isInitialized, boundHandleVisibilityChange,
           boundFlushWithBeacon, consecutiveFailures, backoffUntil, lastErrorLogged,
           now, idleCallbacks, inFlight, nextId, attempted, delivered, beaconed, dropped,
           cachedSessionId, sessionStorage, peerKey, sessionIds, payload, warnLog, removals,
           response, lastOp >>

sessionVars == << cachedSessionId, sessionStorage, peerKey, sessionIds >>

engineVars == << eventQueue, flushTimer, isInitialized, boundHandleVisibilityChange,
                 boundFlushWithBeacon, consecutiveFailures, backoffUntil, lastErrorLogged >>

-----------------------------------------------------------------------------
(* Program constants *)

MAX_BACKOFF_MS == 5 * 60 * 1000

ERROR_LOG_INTERVAL_MS == 60000

\* the literal 100 of the requeue: const spaceLeft = 100 - eventQueue.length
QueueCap == 100

\* DEFAULT_CONFIG.flushInterval
DefaultFlushInterval == 5000

\* DEFAULT_CONFIG.sessionKey
DefaultSessionKey == "pleme_session_id"

\* the values of config.sessionKey that instances are created with
SessionKeys == {DefaultSessionKey, "other_session_id"}

(* Bounds of the model *)

\* config.batchSize of the instance under check
BatchSize == 2

\* track-* calls in a behaviour
MaxEvents == 3

\* clock steps after which the clock only runs on to reach a pending deadline
MaxTicks == 1

\* consecutive failures the network produces
MaxFailures == 2

\* deferred flush callbacks pending at once
MaxPending == 2

\* fetches awaiting their response at once
MaxInFlight == 2

\* track-* calls in a behaviour of the specification with fairness
LiveEvents == 2

\* consecutive failures the network produces in the backoff specification
BackoffFailures == 8

\* track-* calls in a behaviour of the cap specification
CapEvents == 102

\* config.batchSize of the cap specification: no batch threshold below the cap
CapBatchSize == 2 * QueueCap

\* config.batchSize of the interval specification: above the number of track-* calls
IntervalBatchSize == LiveEvents + 1

\* the clock advances in steps of half a flush interval
TickMs == DefaultFlushInterval \div 2

\* Date.now() at construction: any time later than one log interval after the epoch
StartTime == 2 * ERROR_LOG_INTERVAL_MS

\* the time up to which the network may fail and the clock runs freely
Horizon == StartTime + MaxTicks * TickMs

-----------------------------------------------------------------------------
(* Helpers *)

Min(a, b) == IF a < b THEN a ELSE b

Range(s) == { s[i] : i \in 1..Len(s) }

\* Array.prototype.slice(start, end) for 0 <= start, any end >= 0
Slice(s, start, end) == SubSeq(s, start + 1, Min(end, Len(s)))

\* variant of getBackoffDelay: the doubling without its ceiling
getBackoffDelayUncapped(failures) == 5000 * 2 ^ (failures - 1)

\* Math.min(5000 * Math.pow(2, consecutiveFailures - 1), MAX_BACKOFF_MS), for failures >= 1
getBackoffDelay(failures) == Min(5000 * 2 ^ (failures - 1), MAX_BACKOFF_MS)

\* variant of BatchFull: the threshold taken one event early
BatchFullEarly(queue) == Len(queue) >= config.batchSize - 1

\* collect: eventQueue.length >= config.batchSize
BatchFull(queue) == Len(queue) >= config.batchSize

\* variant of InBackoff: a breaker that is never open
InBackoffNever(t) == FALSE

\* variant of NothingToSend: no look at the queue's length
NothingToSendNever(queue) == FALSE

\* flush: eventQueue.length === 0
NothingToSend(queue) == Len(queue) = 0

\* flush: now < backoffUntil
InBackoff(t) == t < backoffUntil

\* variant of Requeue: the whole failed batch pushed, whatever the queue holds
RequeueUncapped(queue, events) == queue \o events

\* variant of Requeue: the failed batch given up
RequeueDiscard(queue, events) == queue

\* catch: const spaceLeft = 100 - eventQueue.length
\*        if (spaceLeft > 0) eventQueue.push(...events.slice(0, spaceLeft))
Requeue(queue, events) ==
    LET spaceLeft == QueueCap - Len(queue)
    IN  IF spaceLeft > 0 THEN queue \o Slice(events, 0, spaceLeft) ELSE queue

\* the events of the failed batch that lie beyond the space the cap leaves
Truncated(queue, events) ==
    LET spaceLeft == QueueCap - Len(queue)
    IN  IF spaceLeft > 0
          THEN Range(events) \ Range(Slice(events, 0, spaceLeft))
          ELSE Range(events)

\* variant of Emptied: the queue left as it was when its copy is sent
EmptiedNever(queue) == queue

\* flush: eventQueue = [], after the copy
Emptied(queue) == << >>

\* variant of Batch: a request body of at most batchSize events
BatchFirstN(queue) == Slice(queue, 0, config.batchSize)

\* flush: const events = [...eventQueue], the body of the request
Batch(queue) == queue

\* variant of IntervalTimer: the interval restarted by every track-* call
IntervalTimerRestart(timer, t) == {t + config.flushInterval}

\* collect: else if (!flushTimer) flushTimer = setTimeout(scheduleFlush, config.flushInterval)
IntervalTimer(timer, t) == IF timer = {} THEN {t + config.flushInterval} ELSE timer

\* variant of DeferTimer: no timer armed by a flush that finds the breaker open
DeferTimerNever(timer, t) == timer

\* flush: if (!flushTimer) flushTimer = setTimeout(scheduleFlush, backoffUntil - now)
DeferTimer(timer, t) == IF timer = {} THEN {t + (backoffUntil - t)} ELSE timer

\* variant of RetryTimer: no retry timer armed after a failure
RetryTimerNever(timer, t, delay) == timer

\* catch: if (!flushTimer) flushTimer = setTimeout(scheduleFlush, delay)
RetryTimer(timer, t, delay) == IF timer = {} THEN {t + delay} ELSE timer

\* variant of ShouldLog: every failure logged
ShouldLogAlways(logNow) == TRUE

\* catch: if (logNow - lastErrorLogged >= ERROR_LOG_INTERVAL_MS)
ShouldLog(logNow) == logNow - lastErrorLogged >= ERROR_LOG_INTERVAL_MS

\* variant of Throws: the status of the response not looked at
ThrowsOnRejectOnly(outcome) == outcome = "rejected"

\* the try block of flush: await fetch(...) throws when the call is rejected, and
\* if (!response.ok) throw new Error(...) when it resolved with another status
Throws(outcome) == outcome = "rejected" \/ outcome # "ok"

\* generateSessionId(): an id that is stored under no key yet
generateSessionId == 1 + Cardinality({key \in SessionKeys : sessionStorage[key] # 0})

\* session.ts getSessionId(sessionKey): the id returned, and the cache and the
\* storage as the call leaves them
getSessionId(sessionKey) ==
    IF cachedSessionId # 0
      THEN [id |-> cachedSessionId, cache |-> cachedSessionId, storage |-> sessionStorage]
      ELSE LET stored == sessionStorage[sessionKey]
               sessionId == IF stored # 0 THEN stored ELSE generateSessionId
           IN  [id |-> sessionId, cache |-> sessionId,
                storage |-> [sessionStorage EXCEPT ![sessionKey] = sessionId]]

\* getSession() of the instance `who`, created with `sessionKey`:
\* () => getSessionId(config.sessionKey)
getSession(who, sessionKey) ==
    LET got == getSessionId(sessionKey)
    IN  /\ cachedSessionId' = got.cache
        /\ sessionStorage' = got.storage
        /\ sessionIds' = [sessionIds EXCEPT ![who] = @ \cup {got.id}]
        /\ UNCHANGED peerKey

\* JavaScript values, as far as trackError looks at them: a string, a number (by
\* its decimal text), undefined, or an Error object with its message and stack
Str(text) == [type |-> "string", text |-> text]

Num(text) == [type |-> "number", text |-> text]

Undefined == [type |-> "undefined", text |-> "undefined"]

ErrorObject(message, stack) ==
    [type |-> "Error", text |-> "Error: " \o message, message |-> Str(message),
     stack |-> Str(stack)]

\* error instanceof Error
IsError(value) == value.type = "Error"

\* String(value)
String(value) == Str(value.text)

\* the properties object that trackError builds:
\* { ...properties, error, message: ..., stack: ... }
ErrorProperties(error, properties) ==
    [key \in DOMAIN properties \cup {"error", "message", "stack"} |->
        CASE key = "error" -> error
          [] key = "message" -> IF IsError(error) THEN error.message ELSE String(error)
          [] key = "stack" -> IF IsError(error) THEN error.stack ELSE Undefined
          [] OTHER -> properties[key]]

-----------------------------------------------------------------------------
(* Construction *)

\* createObservability({ batchSize, useBeacon }) in a browser, in a fresh browsing
\* context where a second instance is created with the session key `key`: the
\* state when the factory returns
Constructed(batchSize, useBeacon, key) ==
    /\ config = [batchSize |-> batchSize, flushInterval |-> DefaultFlushInterval,
                 useBeacon |-> useBeacon, sessionKey |-> DefaultSessionKey]
    /\ cachedSessionId = 0
    /\ sessionStorage = [k \in SessionKeys |-> 0]
    /\ peerKey = key
    /\ sessionIds = [who \in {"engine", "peer"} |-> {}]
    /\ payload = {}
    /\ eventQueue = << >>
    /\ flushTimer = {}
    /\ isInitialized = TRUE
    /\ boundHandleVisibilityChange = config.useBeacon
    /\ boundFlushWithBeacon = config.useBeacon
    /\ consecutiveFailures = 0
    /\ backoffUntil = 0
    /\ lastErrorLogged = 0
    /\ now = StartTime
    /\ idleCallbacks = 0
    /\ inFlight = {}
    /\ nextId = 0
    /\ attempted = FALSE
    /\ delivered = {}
    /\ beaconed = {}
    /\ dropped = {}
    /\ warnLog = << >>
    /\ removals = [visibilitychange |-> 0, beforeunload |-> 0]
    /\ response = "none"
    /\ lastOp = "init"

\* the same with DEFAULT_CONFIG.useBeacon, true
CreatedWith(batchSize, key) == Constructed(batchSize, TRUE, key)

\* the same with both instances on the default session key
Created(batchSize) == CreatedWith(batchSize, DefaultSessionKey)

Init == Created(BatchSize)

InitCap == Created(CapBatchSize)

InitInterval == Created(IntervalBatchSize)

\* the second instance created with any of the session keys
InitSession == \E key \in SessionKeys : CreatedWith(BatchSize, key)

\* the instance created with useBeacon on or off
InitBeacon == \E useBeacon \in BOOLEAN : Constructed(BatchSize, useBeacon, DefaultSessionKey)

-----------------------------------------------------------------------------
(* Operations *)

\* scheduleFlush() run on the queue `queue`: clears the timer, and hands flush to
\* requestIdleCallback (or setTimeout 0) unless the queue is empty
scheduleFlush(queue) ==
    /\ flushTimer' = {}
    /\ idleCallbacks' = IF Len(queue) = 0 THEN idleCallbacks ELSE idleCallbacks + 1

\* variant of collect: at the batch size, with the breaker closed, the fetch is
\* started inside the track-* call
collectFlushesNow ==
    /\ nextId' = nextId + 1
    /\ getSession("engine", config.sessionKey)
    /\ LET queue == Append(eventQueue, nextId + 1)
       IN  IF BatchFull(queue) /\ ~InBackoff(now)
             THEN /\ eventQueue' = << >>
                  /\ inFlight' = inFlight \cup {Batch(queue)}
                  /\ attempted' = TRUE
                  /\ flushTimer' = {}
                  /\ lastOp' = "send"
             ELSE /\ eventQueue' = queue
                  /\ flushTimer' = IntervalTimer(flushTimer, now)
                  /\ lastOp' = "other"
                  /\ UNCHANGED << inFlight, attempted >>
    /\ response' = "none"
    /\ UNCHANGED << config, warnLog, removals, isInitialized, boundHandleVisibilityChange,
                    boundFlushWithBeacon, consecutiveFailures, backoffUntil, lastErrorLogged,
                    now, idleCallbacks, delivered, beaconed, dropped >>

\* collect(event), called by every track-* operation
collect ==
    /\ nextId' = nextId + 1
    /\ getSession("engine", config.sessionKey)
    /\ eventQueue' = Append(eventQueue, nextId + 1)
    /\ IF BatchFull(eventQueue')
         THEN scheduleFlush(eventQueue')
         ELSE /\ flushTimer' = IntervalTimer(flushTimer, now)
              /\ idleCallbacks' = idleCallbacks
    /\ lastOp' = "other"
    /\ response' = "none"
    /\ UNCHANGED << config, warnLog, removals, isInitialized, boundHandleVisibilityChange, boundFlushWithBeacon,
                    consecutiveFailures, backoffUntil, lastErrorLogged, now, inFlight,
                    attempted, delivered, beaconed, dropped >>

\* trackEvent, trackMetric, trackTrace, trackPageView: collect(event)
trackEvent ==
    /\ collect
    /\ UNCHANGED payload

\* trackError(name, error, properties): collect of an error event with the
\* properties built from `error` and `properties` (an absent `properties` spreads as
\* the empty object)
trackError(error, properties) ==
    /\ collect
    /\ payload' = {[id |-> nextId + 1, error |-> error, given |-> properties,
                    properties |-> ErrorProperties(error, properties)]}

\* the public flush(): scheduleFlush()
apiFlush ==
    /\ scheduleFlush(eventQueue)
    /\ lastOp' = "other"
    /\ response' = "none"
    /\ UNCHANGED << config, payload, sessionVars, warnLog, removals, eventQueue, isInitialized, boundHandleVisibilityChange,
                    boundFlushWithBeacon, consecutiveFailures, backoffUntil,
                    lastErrorLogged, now, inFlight, nextId, attempted, delivered, beaconed,
                    dropped >>

\* the timeout held by flushTimer expires and runs scheduleFlush
timerFires ==
    /\ \E due \in flushTimer : now >= due
    /\ scheduleFlush(eventQueue)
    /\ lastOp' = "other"
    /\ response' = "none"
    /\ UNCHANGED << config, payload, sessionVars, warnLog, removals, eventQueue, isInitialized, boundHandleVisibilityChange,
                    boundFlushWithBeacon, consecutiveFailures, backoffUntil,
                    lastErrorLogged, now, inFlight, nextId, attempted, delivered, beaconed,
                    dropped >>

\* a deferred callback runs flush() up to its await: the empty-queue return, the
\* circuit breaker's deferral, or the swap of the queue and the fetch call
flush ==
    /\ idleCallbacks > 0
    /\ idleCallbacks' = idleCallbacks - 1
    /\ IF NothingToSend(eventQueue)
         THEN /\ lastOp' = "other"
              /\ UNCHANGED << eventQueue, flushTimer, inFlight, attempted >>
         ELSE IF InBackoff(now)
           THEN /\ flushTimer' = DeferTimer(flushTimer, now)
                /\ lastOp' = "defer"
                /\ UNCHANGED << eventQueue, inFlight, attempted >>
           ELSE /\ inFlight' = inFlight \cup {Batch(eventQueue)}
                /\ eventQueue' = Emptied(eventQueue)
                /\ attempted' = TRUE
                /\ lastOp' = "send"
                /\ UNCHANGED flushTimer
    /\ response' = "none"
    /\ UNCHANGED << config, payload, sessionVars, warnLog, removals, isInitialized, boundHandleVisibilityChange, boundFlushWithBeacon,
                    consecutiveFailures, backoffUntil, lastErrorLogged, now, nextId,
                    delivered, beaconed, dropped >>

\* variant of fetchOk: the failure count reset, the backoff window left standing
fetchOkKeepsWindow(events) ==
    /\ events \in inFlight
    /\ inFlight' = inFlight \ {events}
    /\ consecutiveFailures' = 0
    /\ delivered' = delivered \cup Range(events)
    /\ lastOp' = "other"
    /\ UNCHANGED << config, payload, sessionVars, warnLog, removals, eventQueue, flushTimer, isInitialized,
                    boundHandleVisibilityChange, boundFlushWithBeacon, backoffUntil,
                    lastErrorLogged, now, idleCallbacks, nextId, attempted, beaconed,
                    dropped >>

\* the fetch of batch `events` resolves with response.ok: flush() resumes after its await
fetchOk(events) ==
    /\ events \in inFlight
    /\ inFlight' = inFlight \ {events}
    /\ consecutiveFailures' = 0
    /\ backoffUntil' = 0
    /\ delivered' = delivered \cup Range(events)
    /\ lastOp' = "other"
    /\ UNCHANGED << config, payload, sessionVars, warnLog, removals, eventQueue, flushTimer, isInitialized,
                    boundHandleVisibilityChange, boundFlushWithBeacon, lastErrorLogged,
                    now, idleCallbacks, nextId, attempted, beaconed, dropped >>

\* the fetch of batch `events` rejects, or resolves with a status that is not ok:
\* flush() resumes in its catch block
fetchFails(events) ==
    /\ events \in inFlight
    /\ inFlight' = inFlight \ {events}
    /\ consecutiveFailures' = consecutiveFailures + 1
    /\ eventQueue' = Requeue(eventQueue, events)
    /\ dropped' = dropped \cup Truncated(eventQueue, events)
    /\ backoffUntil' = now + getBackoffDelay(consecutiveFailures')
    /\ lastErrorLogged' = IF ShouldLog(now) THEN now ELSE lastErrorLogged
    /\ warnLog' = IF ShouldLog(now) THEN Append(warnLog, now) ELSE warnLog
    /\ flushTimer' = RetryTimer(flushTimer, now, getBackoffDelay(consecutiveFailures'))
    /\ lastOp' = "fail"
    /\ UNCHANGED << config, payload, sessionVars, removals, isInitialized, boundHandleVisibilityChange, boundFlushWithBeacon,
                    now, idleCallbacks, nextId, attempted, delivered, beaconed >>

\* the fetch of batch `events` settles with `outcome`: flush() resumes after its
\* await, in the rest of its try block or in its catch block
settle(events, outcome) ==
    /\ response' = outcome
    /\ IF Throws(outcome) THEN fetchFails(events) ELSE fetchOk(events)

\* variant of flushWithBeacon: the teardown flush behind the circuit breaker
flushWithBeaconBehindBreaker ==
    /\ IF Len(eventQueue) = 0 \/ ~config.useBeacon \/ InBackoff(now)
         THEN /\ lastOp' = "other"
              /\ UNCHANGED << eventQueue, beaconed >>
         ELSE /\ beaconed' = beaconed \cup Range(eventQueue)
              /\ eventQueue' = << >>
              /\ lastOp' = "beacon"
    /\ response' = "none"
    /\ UNCHANGED << config, payload, sessionVars, warnLog, removals, flushTimer, isInitialized,
                    boundHandleVisibilityChange, boundFlushWithBeacon, consecutiveFailures,
                    backoffUntil, lastErrorLogged, now, idleCallbacks, inFlight, nextId,
                    attempted, delivered, dropped >>

\* variant of flushWithBeacon: the beacon sent, the queue left as it was
flushWithBeaconKeepsQueue ==
    /\ IF Len(eventQueue) = 0 \/ ~config.useBeacon
         THEN /\ lastOp' = "other"
              /\ UNCHANGED beaconed
         ELSE /\ beaconed' = beaconed \cup Range(eventQueue)
              /\ lastOp' = "beacon"
    /\ response' = "none"
    /\ UNCHANGED << config, payload, sessionVars, warnLog, removals, eventQueue, flushTimer, isInitialized,
                    boundHandleVisibilityChange, boundFlushWithBeacon, consecutiveFailures,
                    backoffUntil, lastErrorLogged, now, idleCallbacks, inFlight, nextId,
                    attempted, delivered, dropped >>

\* flushWithBeacon()
flushWithBeacon ==
    /\ IF Len(eventQueue) = 0 \/ ~config.useBeacon
         THEN /\ lastOp' = "other"
              /\ UNCHANGED << eventQueue, beaconed >>
         ELSE /\ beaconed' = beaconed \cup Range(eventQueue)
              /\ eventQueue' = << >>
              /\ lastOp' = "beacon"
    /\ response' = "none"
    /\ UNCHANGED << config, payload, sessionVars, warnLog, removals, flushTimer, isInitialized, boundHandleVisibilityChange,
                    boundFlushWithBeacon, consecutiveFailures, backoffUntil,
                    lastErrorLogged, now, idleCallbacks, inFlight, nextId, attempted,
                    delivered, dropped >>

\* the visibilitychange listener, with document.visibilityState === 'hidden'
handleVisibilityChange ==
    /\ boundHandleVisibilityChange
    /\ flushWithBeacon

\* the beforeunload listener
beforeUnload ==
    /\ boundFlushWithBeacon
    /\ flushWithBeacon

\* a page-lifecycle signal for which no listener is registered
ignored ==
    /\ lastOp' = "ignored"
    /\ response' = "none"
    /\ UNCHANGED << config, payload, sessionVars, warnLog, removals, engineVars, now,
                    idleCallbacks, inFlight, nextId, attempted, delivered, beaconed,
                    dropped >>

\* the browser dispatches visibilitychange with the page hidden
pageHidden == IF boundHandleVisibilityChange THEN handleVisibilityChange ELSE ignored

\* the browser dispatches beforeunload
pageUnloads == IF boundFlushWithBeacon THEN beforeUnload ELSE ignored

\* the variables that cleanup() reads and writes
CleanupState ==
    [flushTimer |-> flushTimer,
     isInitialized |-> isInitialized,
     boundHandleVisibilityChange |-> boundHandleVisibilityChange,
     boundFlushWithBeacon |-> boundFlushWithBeacon,
     cachedSessionId |-> cachedSessionId,
     removals |-> removals]

\* variant of cleanupOf: removeEventListener called whether a listener is held or not
cleanupOfUnguarded(s) ==
    [flushTimer |-> {},
     isInitialized |-> FALSE,
     boundHandleVisibilityChange |-> FALSE,
     boundFlushWithBeacon |-> FALSE,
     cachedSessionId |-> 0,
     removals |-> [visibilitychange |-> s.removals.visibilitychange + 1,
                   beforeunload |-> s.removals.beforeunload + 1]]

\* cleanup() as a function of the variables it reads: each listener that is held is
\* removed and forgotten, the timer is cleared, isInitialized is set to false
cleanupOf(s) ==
    [flushTimer |-> {},
     isInitialized |-> FALSE,
     boundHandleVisibilityChange |-> FALSE,
     boundFlushWithBeacon |-> FALSE,
     cachedSessionId |-> 0,
     removals |->
        [visibilitychange |-> s.removals.visibilitychange
                                + (IF s.boundHandleVisibilityChange THEN 1 ELSE 0),
         beforeunload |-> s.removals.beforeunload
                                + (IF s.boundFlushWithBeacon THEN 1 ELSE 0)]]

\* cleanup()
cleanup ==
    /\ LET after == cleanupOf(CleanupState)
       IN  /\ flushTimer' = after.flushTimer
           /\ isInitialized' = after.isInitialized
           /\ boundHandleVisibilityChange' = after.boundHandleVisibilityChange
           /\ boundFlushWithBeacon' = after.boundFlushWithBeacon
           /\ cachedSessionId' = after.cachedSessionId
           /\ removals' = after.removals
    /\ lastOp' = "other"
    /\ response' = "none"
    /\ UNCHANGED << config, payload, sessionStorage, peerKey, sessionIds, warnLog, eventQueue,
                    consecutiveFailures, backoffUntil, lastErrorLogged, now, idleCallbacks,
                    inFlight, nextId, attempted, delivered, beaconed, dropped >>

\* the public getSessionId(): getSession()
apiGetSessionId ==
    /\ getSession("engine", config.sessionKey)
    /\ lastOp' = "other"
    /\ response' = "none"
    /\ UNCHANGED << config, payload, warnLog, removals, engineVars, now, idleCallbacks, inFlight,
                    nextId, attempted, delivered, beaconed, dropped >>

\* the second instance calls getSession(), in its getSessionId() or in a track-* call
peerGetSession ==
    /\ getSession("peer", peerKey)
    /\ lastOp' = "other"
    /\ response' = "none"
    /\ UNCHANGED << config, payload, warnLog, removals, engineVars, now, idleCallbacks, inFlight,
                    nextId, attempted, delivered, beaconed, dropped >>

\* cleanup() of the second instance: resetSessionCache()
peerCleanup ==
    /\ cachedSessionId' = 0
    /\ lastOp' = "other"
    /\ response' = "none"
    /\ UNCHANGED << config, payload, sessionStorage, peerKey, sessionIds, warnLog, removals,
                    engineVars, now, idleCallbacks, inFlight, nextId, attempted, delivered,
                    beaconed, dropped >>

\* time passes
tick ==
    /\ now' = now + TickMs
    /\ lastOp' = "other"
    /\ response' = "none"
    /\ UNCHANGED << config, payload, sessionVars, warnLog, removals, engineVars, idleCallbacks, inFlight, nextId, attempted, delivered,
                    beaconed, dropped >>

\* `ms` milliseconds pass
elapse(ms) ==
    /\ now' = now + ms
    /\ lastOp' = "other"
    /\ response' = "none"
    /\ UNCHANGED << config, payload, sessionVars, warnLog, removals, engineVars, idleCallbacks, inFlight, nextId, attempted, delivered,
                    beaconed, dropped >>

-----------------------------------------------------------------------------
(* Specifications *)

\* what the bounds allow of the environment and of the event loop
CanDefer == idleCallbacks < MaxPending

CanSend == Cardinality(inFlight) < MaxInFlight \/ Len(eventQueue) = 0 \/ InBackoff(now)

CanFail == consecutiveFailures < MaxFailures /\ now <= Horizon

DeadlineAhead == (\E due \in flushTimer : now < due) \/ now < backoffUntil

CanTick == now < Horizon \/ DeadlineAhead

Track == nextId < MaxEvents /\ CanDefer /\ trackEvent

ApiFlush == CanDefer /\ apiFlush

TimerFires == CanDefer /\ timerFires

Flush == CanSend /\ flush

\* the outcomes of a fetch that is not delivered
Failures == {"status", "rejected"}

FetchOk == \E events \in inFlight : settle(events, "ok")

FetchFails == \E events \in inFlight, outcome \in Failures : CanFail /\ settle(events, outcome)

Tick == CanTick /\ tick

Next ==
    \/ Track
    \/ ApiFlush
    \/ TimerFires
    \/ Flush
    \/ FetchOk
    \/ FetchFails
    \/ handleVisibilityChange
    \/ beforeUnload
    \/ cleanup
    \/ Tick

Spec == Init /\ [][Next]_vars

\* the automatic triggers alone: no flush() call and no page-lifecycle signal
NextAuto ==
    \/ Track
    \/ TimerFires
    \/ Flush
    \/ FetchOk
    \/ FetchFails
    \/ cleanup
    \/ Tick

SpecAuto == Init /\ [][NextAuto]_vars

\* long queues: a batch size above the cap, a page that requests one flush at a
\* time and keeps tracking, a network that is down, all within one clock step
TrackCap == nextId < CapEvents /\ trackEvent

FlushCap == (inFlight = {} \/ Len(eventQueue) = 0 \/ InBackoff(now)) /\ flush

ApiFlushCap == idleCallbacks = 0 /\ apiFlush

NextCap ==
    \/ TrackCap
    \/ ApiFlushCap
    \/ FlushCap
    \/ FetchFails

SpecCap == InitCap /\ [][NextCap]_vars

\* the event loop runs due timers and deferred callbacks, every fetch settles, and
\* time passes
Fairness ==
    /\ WF_vars(TimerFires)
    /\ WF_vars(Flush)
    /\ WF_vars(FetchOk \/ FetchFails)
    /\ WF_vars(Tick)

TrackLive == nextId < LiveEvents /\ CanDefer /\ trackEvent

NextLive ==
    \/ TrackLive
    \/ ApiFlush
    \/ TimerFires
    \/ Flush
    \/ FetchOk
    \/ FetchFails
    \/ handleVisibilityChange
    \/ beforeUnload
    \/ cleanup
    \/ Tick

SpecLive == Init /\ [][NextLive]_vars /\ Fairness

\* the same with a batch size that the track-* calls do not reach: the flush timer,
\* flush() and the page-lifecycle signals are the triggers
SpecInterval == InitInterval /\ [][NextLive]_vars /\ Fairness

\* long outages: the network fails up to BackoffFailures times in a row, one
\* fetch is in flight at a time, and the page is idle until the flush timer is due
FetchFailsBackoff ==
    \E events \in inFlight, outcome \in Failures :
       consecutiveFailures < BackoffFailures /\ settle(events, outcome)

Sleep == \E due \in flushTimer : now < due /\ elapse(due - now)

NextBackoff ==
    \/ TrackLive
    \/ TimerFires
    \/ FlushCap
    \/ FetchOk
    \/ FetchFailsBackoff
    \/ Sleep

SpecBackoff == Init /\ [][NextBackoff]_vars

\* two instances in one process: this one tracks, both read the session id, and
\* either is cleaned up, in any order
NextSession ==
    \/ TrackLive
    \/ apiGetSessionId
    \/ cleanup
    \/ peerGetSession
    \/ peerCleanup

SpecSession == InitSession /\ [][NextSession]_vars

\* error tracking: trackError called with a string, a number or an Error object,
\* and with caller properties over any of the keys below
PropertyKeys == {"context", "error", "message", "stack"}

PropertyValues == {Str("caller"), Num("7")}

PropertyInputs == UNION { [keys -> PropertyValues] : keys \in SUBSET PropertyKeys }

ErrorInputs == {Str("failed"), Num("42"), ErrorObject("boom", "Error: boom at f")}

TrackError ==
    /\ nextId < LiveEvents
    /\ CanDefer
    /\ \E error \in ErrorInputs, properties \in PropertyInputs : trackError(error, properties)

NextError ==
    \/ TrackError
    \/ Flush
    \/ FetchOk

SpecError == Init /\ [][NextError]_vars

\* useBeacon on or off, and page-lifecycle signals dispatched whether a listener
\* is registered or not
NextBeacon ==
    \/ TrackLive
    \/ ApiFlush
    \/ TimerFires
    \/ Flush
    \/ FetchOk
    \/ FetchFails
    \/ pageHidden
    \/ pageUnloads
    \/ cleanup
    \/ Tick

SpecBeacon == InitBeacon /\ [][NextBeacon]_vars

-----------------------------------------------------------------------------
(* Properties *)

Max(a, b) == IF a > b THEN a ELSE b

InFlightEvents == UNION { Range(events) : events \in inFlight }

\* a step that is the catch block of flush(), and the batch whose fetch failed in it
FailStep == lastOp' = "fail" /\ inFlight' # inFlight

FailedBatch == CHOOSE events \in inFlight : events \notin inFlight'

\* C1: no standard delivery attempt starts while the current time is earlier than
\* backoffUntil: in the state a flush has just started a fetch in, the clock is at
\* or past backoffUntil, whichever trigger scheduled that flush.
NoSendInBackoff == lastOp = "send" => now >= backoffUntil

\* C1 witness: after a failure, a retry has just been sent, at or after backoffUntil
RetrySent == lastOp = "send" /\ backoffUntil > 0 /\ now >= backoffUntil

\* C3 (as claimed): the event queue holds at most 100 events in every reachable state.
QueueWithinCap == Len(eventQueue) <= QueueCap

\* C4: the requeue of a failed batch of B events onto a queue of L events leaves at
\* most max(L, 100) events, and exactly min(100, L + B) when L <= 100.
RequeueBounded ==
    [][FailStep =>
         LET L == Len(eventQueue)
             B == Len(FailedBatch)
         IN  /\ Len(eventQueue') <= Max(L, QueueCap)
             /\ (L <= QueueCap => Len(eventQueue') = Min(QueueCap, L + B))]_vars

\* C4 witness: a failure has just been handled whose batch did not fit under the cap
RequeueTruncated == lastOp = "fail" /\ dropped # {} /\ Len(eventQueue) = QueueCap

\* C5 (as claimed): after the requeue of the first failure, every retained event of
\* the failed batch precedes every other event of the queue (all of which were
\* tracked while the attempt was in flight).
RequeueAtFront ==
    [][(FailStep /\ lastErrorLogged = 0) =>
         \A i, j \in 1..Len(eventQueue') :
            (eventQueue'[i] \in Range(FailedBatch) /\ eventQueue'[j] \notin Range(FailedBatch))
               => i < j]_vars

\* C6 (as claimed): when the failed batch does not fit under the cap, every event
\* of it that is dropped is older than every event of it that is kept.
RequeueDropsOldest ==
    [][FailStep =>
         \A d \in Range(FailedBatch) \ Range(eventQueue') :
            \A k \in Range(FailedBatch) \cap Range(eventQueue') : d < k]_vars

\* C7 (as claimed): at most one standard flush attempt is in flight at a time.
OneInFlight == Cardinality(inFlight) <= 1

\* C8: every tracked event is in the queue, in an in-flight batch, delivered by a
\* successful send, handed to a beacon, or dropped by the cap at a requeue; the
\* open breaker loses none.
NoEventLost ==
    1..nextId = Range(eventQueue) \cup InFlightEvents \cup delivered \cup beaconed \cup dropped

\* C8 witness: a flush has just found the breaker open and left the queue as it was
BreakerDeferred == lastOp = "defer" /\ InBackoff(now) /\ Len(eventQueue) > 0

\* C10 (as claimed): a track-* call that finds the queue at or above batchSize while
\* a deferred flush is pending schedules no further flush callback.
OneFlushScheduled ==
    [][(nextId' = nextId + 1 /\ Len(eventQueue) >= config.batchSize /\ idleCallbacks >= 1)
          => idleCallbacks' = idleCallbacks]_vars

\* C2: after a failed delivery a further standard delivery attempt eventually
\* starts, at or after backoffUntil, unless cleanup() is called or a teardown
\* flush empties the queue first.
RetryEventually ==
    (lastOp = "fail") ~>
       ((lastOp = "send" /\ now >= backoffUntil) \/ lastOp = "beacon" \/ ~isInitialized)

\* C2 witness: with no cleanup and no beacon so far, a retry has just been sent
\* while the failure count is not reset
RetryAfterFailure ==
    /\ lastOp = "send"
    /\ consecutiveFailures > 0
    /\ now >= backoffUntil
    /\ isInitialized
    /\ beaconed = {}

\* C9: while fewer than batchSize events have been tracked and less than
\* flushInterval has elapsed, with no flush() call and no page-lifecycle signal,
\* no delivery attempt has been made.
QuietBelowThresholds ==
    (nextId < config.batchSize /\ now - StartTime < config.flushInterval)
       => (~attempted /\ beaconed = {})

\* C9 witness: events are held, below the batch size and before the interval is over
HeldBelowThresholds ==
    /\ nextId > 0
    /\ nextId < config.batchSize
    /\ now > StartTime
    /\ now - StartTime < config.flushInterval
    /\ Len(eventQueue) = nextId
    /\ flushTimer # {}
    /\ ~attempted

\* a step in which flush() starts a fetch, and the batch the request carries
SendStep == lastOp' = "send" /\ inFlight' # inFlight

SentBatch == CHOOSE events \in inFlight' : events \notin inFlight

\* the events carried by the requests made so far
Posted == InFlightEvents \cup delivered

ArmedOnFirstEvent ==
    (nextId' = nextId + 1 /\ eventQueue = << >> /\ flushTimer = {} /\ ~BatchFull(eventQueue'))
       => flushTimer' = {now + config.flushInterval}

\* the request started by a flush carries every event queued by then
SendTakesQueue == SendStep => (SentBatch = eventQueue /\ eventQueue' = << >>)

\* with no failure and no cleanup so far, a deadline that covers a queued event is
\* not moved while the queue stays non-empty
DeadlineKept ==
    (lastErrorLogged' = 0 /\ isInitialized' /\ eventQueue # << >> /\ eventQueue' # << >>
       /\ flushTimer # {} /\ flushTimer' # {})
       => flushTimer' = flushTimer

\* with no failure and no cleanup so far, queued events wait for a deferred flush
\* already scheduled or for a timer, and no timer is due later than flushInterval from now
HeldWithinInterval ==
    (lastErrorLogged = 0 /\ isInitialized) =>
       /\ \A due \in flushTimer : due <= now + config.flushInterval
       /\ eventQueue # << >> => (idleCallbacks > 0 \/ flushTimer # {})

\* C12: the first event of an empty queue below the batch size arms the timer for
\* flushInterval; once a timer is armed over a non-empty queue a delivery attempt
\* carrying every event queued by then eventually starts, unless cleanup() or a
\* teardown flush comes first; and with no failure every queued event is covered by
\* a deferred flush or by a deadline at most flushInterval after it was tracked.
TimeBasedFlush ==
    /\ [][ArmedOnFirstEvent /\ SendTakesQueue /\ DeadlineKept]_vars
    /\ []HeldWithinInterval
    /\ (flushTimer # {} /\ eventQueue # << >> /\ isInitialized)
          ~> (lastOp = "send" \/ lastOp = "beacon" \/ ~isInitialized)

\* C12 witness: two events, below the batch size, were sent by one flush when the
\* interval that the first of them started was over
SentByTimer ==
    /\ lastOp = "send"
    /\ nextId = 2
    /\ nextId < config.batchSize
    /\ inFlight = {<< 1, 2 >>}
    /\ now = StartTime + config.flushInterval
    /\ lastErrorLogged = 0
    /\ isInitialized

\* the delays of the backoff schedule, in seconds, before the ceiling of 300 s
DelaySeconds == << 5, 10, 20, 40, 80, 160 >>

ScheduledDelay(n) == IF n <= Len(DelaySeconds) THEN 1000 * DelaySeconds[n] ELSE 300000

\* C13: the n-th consecutive failure sets backoffUntil to the time of the failure
\* plus 5, 10, 20, 40, 80, 160 seconds for n = 1..6 and 300 seconds for every later
\* n, which is min(5000 * 2^(n-1), 300000) ms.
BackoffSchedule ==
    [][FailStep =>
         /\ backoffUntil' = now + ScheduledDelay(consecutiveFailures')
         /\ ScheduledDelay(consecutiveFailures') =
               Min(5000 * 2 ^ (consecutiveFailures' - 1), 300000)]_vars

\* C13 witness: a failure beyond the sixth in a row has just set the 300 s ceiling
BackoffAtCeiling ==
    /\ lastOp = "fail"
    /\ consecutiveFailures > Len(DelaySeconds)
    /\ backoffUntil = now + 300000

\* a step in which a fetch resolves ok and flush() resumes after its await
OkStep == delivered' # delivered

\* C14: a successful delivery resets consecutiveFailures and backoffUntil to zero
\* whatever they were; the count then stays at zero until a failure, and the
\* failure that finds it at zero sets the 5-second delay, in every interleaving of
\* the completions of the fetches in flight.
SuccessResetsBreaker ==
    [][/\ OkStep => (consecutiveFailures' = 0 /\ backoffUntil' = 0)
       /\ (consecutiveFailures = 0 /\ ~FailStep) => consecutiveFailures' = 0
       /\ (consecutiveFailures = 0 /\ FailStep) => backoffUntil' = now + 5000]_vars

\* C14 witness: a failure, later than an earlier failure and with a success between
\* them, has just set the 5-second delay
FailureAfterRecovery ==
    /\ lastOp = "fail"
    /\ consecutiveFailures = 1
    /\ delivered # {}
    /\ lastErrorLogged > 0
    /\ lastErrorLogged < now
    /\ backoffUntil = now + 5000

\* C15: any two warnings of the catch block are at least 60000 ms apart.
WarningsSpaced ==
    \A i, j \in 1..Len(warnLog) : i < j => warnLog[j] - warnLog[i] >= 60000

\* C15 witness: a failure has just been handled, two warnings or more have been
\* logged in all, and the failures in a row outnumber them
WarningSuppressed ==
    /\ lastOp = "fail"
    /\ Len(warnLog) >= 2
    /\ consecutiveFailures > Len(warnLog)

\* a step in which flushWithBeacon() calls navigator.sendBeacon
BeaconStep == lastOp' = "beacon"

\* C16: a teardown flush hands the whole queue, none of it handed to a beacon
\* before, to one sendBeacon call and leaves the queue empty; and no event handed
\* to a beacon is in the queue or in a request in flight afterwards, so that no
\* requeue, retry, later teardown flush or standard flush sends it again.
TeardownSendsOnce ==
    /\ [][BeaconStep =>
            /\ eventQueue # << >>
            /\ beaconed' = beaconed \cup Range(eventQueue)
            /\ beaconed \cap Range(eventQueue) = {}
            /\ eventQueue' = << >>]_vars
    /\ [](beaconed \cap (Range(eventQueue) \cup InFlightEvents) = {})

\* C16 witness: after a teardown flush and a failure, a standard flush has just
\* started a request
SendAfterBeacon ==
    /\ lastOp = "send"
    /\ beaconed # {}
    /\ consecutiveFailures > 0

\* C17 (as claimed): once cleanup() has returned no timer is armed and no delivery
\* attempt starts, whatever is called or completes afterwards.
DisposedIsQuiet == ~isInitialized => (flushTimer = {} /\ lastOp # "send")


\* C18: in every state, cleanup() applied twice in a row leaves what cleanup()
\* applied once leaves, the count of listener removals included, and each
\* page-lifecycle listener is removed at most once.
CleanupIdempotent ==
    /\ cleanupOf(cleanupOf(CleanupState)) = cleanupOf(CleanupState)
    /\ removals.visibilitychange <= 1
    /\ removals.beforeunload <= 1

\* C18 witness: cleanup() has removed both listeners, events are still queued and
\* a timer armed after it is there for a further cleanup() to clear
CleanedUp ==
    /\ ~isInitialized
    /\ removals = [visibilitychange |-> 1, beforeunload |-> 1]
    /\ ~boundHandleVisibilityChange
    /\ ~boundFlushWithBeacon
    /\ eventQueue # << >>
    /\ flushTimer # {}


\* C19: no track-* call starts a request or sends a beacon, and every step that
\* starts a request is the run of a deferred flush callback scheduled earlier,
\* which neither a track-* call nor the public flush() is.
SendsAreDeferred ==
    [][/\ nextId' # nextId =>
            (inFlight' = inFlight /\ attempted' = attempted /\ beaconed' = beaconed)
       /\ SendStep =>
            (idleCallbacks > 0 /\ idleCallbacks' = idleCallbacks - 1 /\ nextId' = nextId)]_vars

\* C19 witness: the one request made so far carries more events than the batch
\* size: a track-* call ran between the call that scheduled the flush and the send
SentAfterReturn ==
    /\ lastOp = "send"
    /\ nextId > config.batchSize
    /\ inFlight = {[i \in 1..nextId |-> i]}
    /\ delivered = {}
    /\ consecutiveFailures = 0


\* C20: a fetch that resolves with a status that is not ok and a fetch that is
\* rejected are handled alike, in the catch block: the failure count is incremented,
\* the batch is requeued behind the queue (as far as the cap leaves room),
\* backoffUntil is set ahead of the clock by the scheduled delay, and the retry
\* timer is armed unless a timer is held.
NotOkHandledAsRejected ==
    [][response' \in Failures =>
         /\ lastOp' = "fail"
         /\ consecutiveFailures' = consecutiveFailures + 1
         /\ Len(eventQueue) + Len(FailedBatch) <= QueueCap
               => eventQueue' = eventQueue \o FailedBatch
         /\ backoffUntil' = now + ScheduledDelay(consecutiveFailures')
         /\ backoffUntil' >= backoffUntil
         /\ flushTimer' = IF flushTimer = {} THEN {backoffUntil'} ELSE flushTimer]_vars

\* C20 witness: a response with a status that is not ok has just been handled as a
\* failure, with the batch back in the queue and the retry timer armed
NotOkRequeued ==
    /\ response = "status"
    /\ lastOp = "fail"
    /\ consecutiveFailures > 0
    /\ eventQueue # << >>
    /\ flushTimer = {backoffUntil}


\* C21 (as claimed): with the storage never cleared, all the getSession() calls of
\* an instance return one and the same id, whatever the other instance of the
\* process calls in between and whichever session key either was created with.
SessionIdStable ==
    \A who \in DOMAIN sessionIds : Cardinality(sessionIds[who]) <= 1


\* C22 (as claimed): the error event queued by trackError has, in its properties,
\* message (the error's message, or the string form of a value that is not an
\* Error) and stack (defined for an Error only), and every key of the caller's
\* properties other than message and stack with the caller's value.
ErrorPropertiesMerged ==
    \A call \in payload :
       /\ call.id \in 1..nextId
       /\ call.properties.message =
             (IF IsError(call.error) THEN call.error.message ELSE String(call.error))
       /\ (call.properties.stack # Undefined) <=> IsError(call.error)
       /\ \A key \in DOMAIN call.given \ {"message", "stack"} :
             call.properties[key] = call.given[key]


\* C23 (as claimed, in its weaker reading): when a flush scheduled by any trigger
\* finds the queue non-empty inside the backoff window, a timer is pending
\* afterwards and it is due no later than backoffUntil.
DeferredToBackoffEnd ==
    [][lastOp' = "defer" =>
         (flushTimer' # {} /\ \A due \in flushTimer' : due <= backoffUntil)]_vars


\* C24: every delivery attempt carries at least one event -- no batch is POSTed
\* and no beacon is sent with an empty events array, however many deferred
\* callbacks are pending -- and with useBeacon off no beacon is ever sent and a
\* page-hide or unload signal leaves the queue as it was.
NoEmptyDelivery ==
    /\ [](\A events \in inFlight : Len(events) >= 1)
    /\ [](~config.useBeacon => beaconed = {} /\ lastOp # "beacon")
    /\ [][/\ SendStep => Len(SentBatch) >= 1
          /\ BeaconStep => Len(eventQueue) >= 1
          /\ lastOp' = "ignored" => eventQueue' = eventQueue
          /\ (~config.useBeacon /\ eventQueue' # eventQueue) =>
                lastOp' \in {"send", "fail", "other"}]_vars

\* with useBeacon off and events waiting behind an earlier send, a page signal
\* was dispatched
SignalWithoutBeacon ==
    /\ ~config.useBeacon
    /\ lastOp = "ignored"
    /\ attempted
    /\ eventQueue # << >>

\* C25: no queued event is stranded -- in every state before cleanup(), a
\* non-empty queue has a flush timer armed or a deferred flush callback pending,
\* so that events tracked while a request was in flight are picked up by a later
\* scheduling cycle whether the request succeeds or fails.
NoStrandedEvents ==
    (isInitialized /\ eventQueue # << >>) => (flushTimer # {} \/ idleCallbacks > 0)

\* a request succeeded while events tracked after it was sent wait in the queue
ArrivedDuringAttempt ==
    /\ isInitialized
    /\ response = "ok"
    /\ eventQueue # << >>

\* the batches whose fetch settled in this step
Settled == inFlight \ inFlight'

\* C26: no event is duplicated -- in every state an event is at most once in the
\* queue, never both in the queue and in a request in flight, and in at most one
\* request in flight; and each event is in at most one acknowledged POST or
\* teardown beacon, in every interleaving of track-* calls, completions of
\* concurrent fetches, requeues and teardown flushes.
NoDuplicates ==
    /\ [](Cardinality(Range(eventQueue)) = Len(eventQueue))
    /\ [](Range(eventQueue) \cap InFlightEvents = {})
    /\ [](\A first \in inFlight : \A second \in inFlight \ {first} :
             Range(first) \cap Range(second) = {})
    /\ [](\A events \in inFlight : Cardinality(Range(events)) = Len(events))
    /\ [](delivered \cap beaconed = {})
    /\ [][/\ response' = "ok" =>
               \A events \in Settled : Range(events) \cap (delivered \cup beaconed) = {}
          /\ BeaconStep => Range(eventQueue) \cap (delivered \cup beaconed) = {}]_vars

\* a requeued batch went out by beacon while another request was in flight and
\* a third batch had been acknowledged
RequeuedThenBeaconed ==
    /\ lastOp = "beacon"
    /\ consecutiveFailures > 0
    /\ delivered # {}
    /\ inFlight # {}

\* C27: the teardown flush is outside the circuit breaker -- a page-hide or
\* unload signal sends a non-empty queue by beacon also when the current time is
\* inside the backoff window, and the teardown flush leaves consecutiveFailures,
\* backoffUntil, lastErrorLogged and the pending flush timer as they were.
TeardownOutsideBreaker ==
    /\ []((boundHandleVisibilityChange /\ eventQueue # << >> /\ InBackoff(now)) =>
             ENABLED (handleVisibilityChange /\ BeaconStep /\ eventQueue' = << >>))
    /\ []((boundFlushWithBeacon /\ eventQueue # << >> /\ InBackoff(now)) =>
             ENABLED (beforeUnload /\ BeaconStep /\ eventQueue' = << >>))
    /\ [][BeaconStep =>
            /\ beaconed' = beaconed \cup Range(eventQueue)
            /\ UNCHANGED << consecutiveFailures, backoffUntil, lastErrorLogged,
                            flushTimer >>]_vars

\* a beacon went out inside the backoff window, with the retry timer pending
BeaconInsideBackoff ==
    /\ lastOp = "beacon"
    /\ InBackoff(now)
    /\ consecutiveFailures > 0
    /\ flushTimer # {}

=============================================================================
